---------------------------- MODULE Spec2Model ----------------------------
(***************************************************************************)
(* Model of Task21.ino: a gas-level monitor running one task whose loop    *)
(* calls updateState(), display() and buzzerHandler() in turn.             *)
(*                                                                         *)
(* The program state is the globals value, state and setting, the LED      *)
(* buffer leds[0], the function statics timer (updateState), cursor and    *)
(* old_state (display), the buzzer pin and the display contents.  The      *)
(* environment is the millisecond clock read by millis(), the sample       *)
(* returned by analogRead() and the button events reported by the three    *)
(* GButton objects.                                                        *)
(***************************************************************************)
EXTENDS Integers, Sequences, FiniteSets, TLC

(***************************************************************************)
(* Bounds of the exploration (not program constants).                      *)
(***************************************************************************)
\* iterations of the task loop explored from an initial state
MaxIter == 4
\* iterations in which an increase or decrease event is reported
MaxEdits == 1
\* milliseconds the clock advances after the task has started
MaxElapsed == 2
\* iterations explored from a state of the running program
RunIter == 1

(***************************************************************************)
(* Program constants.                                                      *)
(***************************************************************************)
\* uint16_t: value, medium_threshold, high_threshold
Uint16Mod == 65536
\* int8_t step: values -128..127
Int8Mod == 256
Int8Max == 127
\* analogReadResolution(12): samples are 0..4095
AdcBits == 12
\* if (millis() - timer > 5)
GateMs == 5
\* value += (now_val - value) / 10
FilterDiv == 10
\* cursor = (cursor + 1) % 4
MenuRows == 4
\* step += 10 / step -= 10 on a click
ClickStep == 10
\* step += 100 / step -= 100 on a held button
HoldStep == 100
\* time %= 500 (Control), time %= 100 (Critical), time < 50
ControlPeriod == 500
CriticalPeriod == 100
BeepMs == 50
\* map(value, medium, high, 0, 255)
ColorMax == 255

AdcMax == 2^AdcBits - 1

VARIABLES
  clock,      \* environment: the value millis() returns now
  elapsed,    \* model bookkeeping: milliseconds passed since the start
  budget,     \* model bookkeeping: loop iterations left to explore
  edits,      \* model bookkeeping: iterations with button events left
  pc,         \* the call of the task loop that runs next
  value,      \* uint16_t value: the filtered gas level
  state,      \* State state: Ok, Control or Critical
  setting,    \* Setting setting
  leds,       \* leds[0], the colour buffer
  shown,      \* sequence of colours FastLED.show() pushed in the last updateState
  timer,      \* static uint32_t timer of updateState
  cursor,     \* static int8_t cursor of display
  old_state,  \* static State old_state of display
  buzzer,     \* level of BUZZER_PIN
  oled,       \* what the display shows
  ev,         \* button events reported in the last display() call
  step,       \* int8_t step at the end of the last display() call
  rendered,   \* whether the last display() call redrew the display
  ranAt,      \* millis() at the last run of the gated body of updateState
  now_val     \* uint16_t now_val: the sample read in that run

vars == <<clock, elapsed, budget, edits, pc, value, state, setting, leds, shown,
          timer, cursor, old_state, buzzer, oled, ev, step, rendered, ranAt,
          now_val>>

(***************************************************************************)
(* Types of the source.                                                    *)
(***************************************************************************)
State == {"Ok", "Control", "Critical"}

\* struct Setting with its default member initialisers
Setting == [buzzer_en |-> FALSE, medium_threshold |-> 1000,
            high_threshold |-> 2000, gradient_led_display |-> FALSE]

\* CRGB(r, g, b)
CRGB(r, g, b) == <<r, g, b>>
\* FastLED's named colours CRGB::Green, CRGB::Yellow, CRGB::Red, and the
\* cleared buffer
Green == CRGB(0, 128, 0)
Yellow == CRGB(255, 255, 0)
Red == CRGB(255, 0, 0)
Black == CRGB(0, 0, 0)

LOW == 0
HIGH == 1

(***************************************************************************)
(* Arithmetic of the source.                                               *)
(***************************************************************************)
\* C integer division: the quotient is truncated toward zero
CDiv(a, b) == IF a >= 0 THEN a \div b ELSE -((-a) \div b)

\* conversion of an int to uint16_t
ToUint16(x) == x % Uint16Mod

\* conversion of an int to int8_t
ToInt8(x) == LET r == x % Int8Mod IN IF r > Int8Max THEN r - Int8Mod ELSE r

\* uint32_t subtraction millis() - timer.  No run explored here brings
\* millis() near 2^32, and timer never exceeds millis(), so the difference
\* never borrows and the unsigned result is the integer difference.
Sub32(a, b) == a - b

\* Arduino map(): (x - in_min) * (out_max - out_min) / (in_max - in_min) + out_min
map(x, in_min, in_max, out_min, out_max) ==
  CDiv((x - in_min) * (out_max - out_min), in_max - in_min) + out_min

\* conversion of the long returned by map() to uint8_t
ToUint8(x) == x % (ColorMax + 1)

(***************************************************************************)
(* updateState(): the gate, the low-pass filter, the classification and    *)
(* the indicator colour.                                                   *)
(***************************************************************************)
\* if (millis() - timer > 5)
GateOpen(now, t) == Sub32(now, t) > GateMs

\* Filter with the quotient rounded away from zero
Filter_ceil(v, sample) ==
  ToUint16(v + (IF sample >= v THEN (sample - v + FilterDiv - 1) \div FilterDiv
                ELSE -((v - sample + FilterDiv - 1) \div FilterDiv)))

\* Filter with the difference now_val - value taken in uint16_t
Filter_unsigned(v, sample) ==
  ToUint16(v + CDiv(ToUint16(sample - v), FilterDiv))

\* Filter with the quotient rounded to the nearest integer
Filter_round(v, sample) ==
  ToUint16(v + CDiv(2 * (sample - v) + FilterDiv, 2 * FilterDiv))

\* value += (now_val - value) / 10, computed in int and stored in uint16_t
Filter(v, sample) == ToUint16(v + CDiv(sample - v, FilterDiv))

\* Gradient with the input range of map() given as high, medium
Gradient_reversed(v, s) ==
  LET color == ToUint8(map(v, s.high_threshold, s.medium_threshold, 0, ColorMax))
  IN  CRGB(color, ColorMax - color, 0)

\* uint8_t color = map(value, medium, high, 0, 255); CRGB(color, 255 - color, 0)
Gradient(v, s) ==
  LET color == ToUint8(map(v, s.medium_threshold, s.high_threshold, 0, ColorMax))
  IN  CRGB(color, ColorMax - color, 0)

\* Classify with the gradient colour computed in every state when the flag is
\* set and the thresholds differ
Classify_gradient(v, s) ==
  LET st == IF v < s.medium_threshold THEN "Ok"
            ELSE IF v < s.high_threshold THEN "Control" ELSE "Critical"
      color == ToUint8(map(v, s.medium_threshold, s.high_threshold, 0, ColorMax))
  IN  IF s.gradient_led_display /\ s.medium_threshold # s.high_threshold
      THEN [state |-> st, colour |-> CRGB(color, ColorMax - color, 0)]
      ELSE [state |-> st,
            colour |-> CASE st = "Ok" -> Green
                         [] st = "Control" -> Yellow
                         [] st = "Critical" -> Red]

\* Classify with the two thresholds exchanged
Classify_swapped(v, s) ==
  IF v < s.high_threshold
  THEN [state |-> "Ok", colour |-> Green]
  ELSE IF v < s.medium_threshold
       THEN [state |-> "Control",
             colour |-> IF s.gradient_led_display THEN Gradient(v, s) ELSE Yellow]
       ELSE [state |-> "Critical", colour |-> Red]

\* Classify with value <= medium_threshold as its first test
Classify_le(v, s) ==
  IF v <= s.medium_threshold
  THEN [state |-> "Ok", colour |-> Green]
  ELSE IF v < s.high_threshold
       THEN [state |-> "Control",
             colour |-> IF s.gradient_led_display THEN Gradient(v, s) ELSE Yellow]
       ELSE [state |-> "Critical", colour |-> Red]

\* the if / else if / else chain on value and the two thresholds: the new
\* state and the colour assigned to leds[0]
Classify(v, s) ==
  IF v < s.medium_threshold
  THEN [state |-> "Ok", colour |-> Green]
  ELSE IF v < s.high_threshold
       THEN [state |-> "Control",
             colour |-> IF s.gradient_led_display THEN Gradient(v, s) ELSE Yellow]
       ELSE [state |-> "Critical", colour |-> Red]

\* updateState returning to a loop that calls display() only after the gated
\* body has run
updateState_gated(sample) ==
  /\ pc = "updateState"
  /\ IF GateOpen(clock, timer)
     THEN LET v == Filter(value, sample)
              c == Classify(v, setting)
          IN  /\ pc' = "display"
              /\ now_val' = sample
              /\ value' = v
              /\ state' = c.state
              /\ leds' = c.colour
              /\ shown' = <<c.colour>>
              /\ ranAt' = <<clock>>
     ELSE /\ pc' = "buzzerHandler"
          /\ shown' = <<>>
          /\ UNCHANGED <<value, state, leds, ranAt, now_val>>
  /\ UNCHANGED <<clock, elapsed, budget, edits, setting, timer, cursor, old_state,
                 buzzer, oled, ev, step, rendered>>

updateState(sample) ==
  /\ pc = "updateState"
  /\ pc' = "display"
  /\ IF GateOpen(clock, timer)
     THEN LET v == Filter(value, sample)
              c == Classify(v, setting)
          IN  /\ now_val' = sample
              /\ value' = v
              /\ state' = c.state
              /\ leds' = c.colour
              /\ shown' = <<c.colour>>
              /\ ranAt' = <<clock>>
     ELSE /\ shown' = <<>>
          /\ UNCHANGED <<value, state, leds, ranAt, now_val>>
  /\ UNCHANGED <<clock, elapsed, budget, edits, setting, timer, cursor, old_state,
                 buzzer, oled, ev, step, rendered>>

(***************************************************************************)
(* display(): button handling, the settings edit and the redraw.           *)
(***************************************************************************)
\* what isClick() / isStep() of the three buttons report in one call
Events == [ok_click : BOOLEAN, right_click : BOOLEAN, right_step : BOOLEAN,
           left_click : BOOLEAN, left_step : BOOLEAN]

NoEvent == [ok_click |-> FALSE, right_click |-> FALSE, right_step |-> FALSE,
            left_click |-> FALSE, left_step |-> FALSE]

\* update_flag initialised to 0
update_flag_clear == FALSE

\* bool update_flag = 1
update_flag_init == TRUE

\* NextCursor without the wrap to row 0
NextCursor_nowrap(c, e) == IF e.ok_click THEN ToInt8(c + 1) ELSE c

\* if (ok_btn.isClick()) cursor = (cursor + 1) % 4
NextCursor(c, e) == IF e.ok_click THEN ToInt8((c + 1) % MenuRows) ELSE c

\* StepOf with the four tests chained by else, so that one event counts
StepOf_exclusive(e) ==
  IF e.right_click THEN ClickStep
  ELSE IF e.right_step THEN HoldStep
  ELSE IF e.left_click THEN -ClickStep
  ELSE IF e.left_step THEN -HoldStep
  ELSE 0

\* int8_t step = 0, then the four conditional += / -= in source order
StepOf(e) ==
  LET s0 == 0
      s1 == IF e.right_click THEN ToInt8(s0 + ClickStep) ELSE s0
      s2 == IF e.right_step THEN ToInt8(s1 + HoldStep) ELSE s1
      s3 == IF e.left_click THEN ToInt8(s2 - ClickStep) ELSE s2
      s4 == IF e.left_step THEN ToInt8(s3 - HoldStep) ELSE s3
  IN  s4

\* Edit with rows 0 and 3 inverting their flag on any nonzero step
Edit_toggle(s, c, d) ==
  IF d = 0 THEN s
  ELSE CASE c = 0 -> [s EXCEPT !.buzzer_en = ~@]
         [] c = 1 -> [s EXCEPT !.medium_threshold = ToUint16(@ + d)]
         [] c = 2 -> [s EXCEPT !.high_threshold = ToUint16(@ + d)]
         [] c = 3 -> [s EXCEPT !.gradient_led_display = ~@]
         [] OTHER -> s

\* Edit with the thresholds saturating at 0 and at 65535
Edit_saturating(s, c, d) ==
  LET sat(x) == IF x < 0 THEN 0 ELSE IF x >= Uint16Mod THEN Uint16Mod - 1 ELSE x
  IN  IF d = 0 THEN s
      ELSE CASE c = 0 -> [s EXCEPT !.buzzer_en = (d > 0)]
             [] c = 1 -> [s EXCEPT !.medium_threshold = sat(@ + d)]
             [] c = 2 -> [s EXCEPT !.high_threshold = sat(@ + d)]
             [] c = 3 -> [s EXCEPT !.gradient_led_display = (d > 0)]
             [] OTHER -> s

\* Edit with a step on row 1 written to both thresholds
Edit_both(s, c, d) ==
  IF d = 0 THEN s
  ELSE CASE c = 0 -> [s EXCEPT !.buzzer_en = (d > 0)]
         [] c = 1 -> [s EXCEPT !.medium_threshold = ToUint16(@ + d),
                               !.high_threshold = ToUint16(@ + d)]
         [] c = 2 -> [s EXCEPT !.high_threshold = ToUint16(@ + d)]
         [] c = 3 -> [s EXCEPT !.gradient_led_display = (d > 0)]
         [] OTHER -> s

\* Edit refusing a step that would leave medium_threshold >= high_threshold
Edit_ordered(s, c, d) ==
  LET t == IF d = 0 THEN s
           ELSE CASE c = 0 -> [s EXCEPT !.buzzer_en = (d > 0)]
                  [] c = 1 -> [s EXCEPT !.medium_threshold = ToUint16(@ + d)]
                  [] c = 2 -> [s EXCEPT !.high_threshold = ToUint16(@ + d)]
                  [] c = 3 -> [s EXCEPT !.gradient_led_display = (d > 0)]
                  [] OTHER -> s
  IN  IF t.medium_threshold >= t.high_threshold THEN s ELSE t

\* switch (cursor) under if (step != 0)
Edit(s, c, d) ==
  IF d = 0 THEN s
  ELSE CASE c = 0 -> [s EXCEPT !.buzzer_en = (d > 0)]
         [] c = 1 -> [s EXCEPT !.medium_threshold = ToUint16(@ + d)]
         [] c = 2 -> [s EXCEPT !.high_threshold = ToUint16(@ + d)]
         [] c = 3 -> [s EXCEPT !.gradient_led_display = (d > 0)]
         [] OTHER -> s

\* the decimal digits of n, most significant first
RECURSIVE Digits(_)
Digits(n) == IF n < 10 THEN <<n>> ELSE Append(Digits(n \div 10), n % 10)

\* printf("%04d", n) for n >= 0: at least four digits, padded with zeros
Fmt04d(n) ==
  LET d == Digits(n)
  IN  IF Len(d) >= 4 THEN d ELSE [i \in 1..(4 - Len(d)) |-> 0] \o d

\* printf("%s", flag ? "vkl" : "vykl")
OnOff(b) == IF b THEN "vkl" ELSE "vykl"

\* the text printed on row 0 for each state
Label(st) ==
  CASE st = "Ok" -> "Vse horosho"
    [] st = "Control" -> "Ostorozhno"
    [] st = "Critical" -> "Opasno"

\* oled.clear() in task() before the loop
Blank == [label |-> "", marker |-> 0, buzzer_en |-> "", medium_threshold |-> <<>>,
          high_threshold |-> <<>>, gradient_led_display |-> ""]

\* the body of if (update_flag): everything written between clear() and update()
Render(st, c, s) ==
  [label |-> Label(st), marker |-> c + 1, buzzer_en |-> OnOff(s.buzzer_en),
   medium_threshold |-> Fmt04d(s.medium_threshold),
   high_threshold |-> Fmt04d(s.high_threshold),
   gradient_led_display |-> OnOff(s.gradient_led_display)]

display(e) ==
  /\ pc = "display"
  /\ pc' = "buzzerHandler"
  /\ LET flag0 == update_flag_init
         flag1 == IF old_state # state THEN TRUE ELSE flag0
         c == NextCursor(cursor, e)
         d == StepOf(e)
         s == Edit(setting, c, d)
         flag2 == IF d # 0 THEN TRUE ELSE flag1
     IN  /\ old_state' = state
         /\ cursor' = c
         /\ setting' = s
         /\ oled' = IF flag2 THEN Render(state, c, s) ELSE oled
         /\ rendered' = flag2
         /\ step' = d
         /\ ev' = e
  /\ UNCHANGED <<clock, elapsed, budget, value, state, leds, shown, timer,
                 buzzer, ranAt, now_val>>

(***************************************************************************)
(* buzzerHandler(): the level written to BUZZER_PIN.                       *)
(***************************************************************************)
\* Level without the test of buzzer_en
Level_always(s, st, now) ==
  CASE st = "Ok" -> LOW
    [] st = "Control" -> IF now % ControlPeriod < BeepMs THEN HIGH ELSE LOW
    [] st = "Critical" -> IF now % CriticalPeriod < BeepMs THEN HIGH ELSE LOW

\* Beep with time <= 50
Beep_le(now, period) == IF now % period <= BeepMs THEN HIGH ELSE LOW

\* time %= period; digitalWrite(BUZZER_PIN, time < 50)
Beep(now, period) == IF now % period < BeepMs THEN HIGH ELSE LOW

\* the level buzzerHandler writes when millis() returns now
Level(s, st, now) ==
  IF s.buzzer_en = FALSE THEN LOW
  ELSE CASE st = "Ok" -> LOW
         [] st = "Control" -> Beep(now, ControlPeriod)
         [] st = "Critical" -> Beep(now, CriticalPeriod)

buzzerHandler ==
  /\ pc = "buzzerHandler"
  /\ pc' = "updateState"
  /\ buzzer' = Level(setting, state, clock)
  /\ budget' = IF budget > 0 THEN budget - 1 ELSE 0
  /\ UNCHANGED <<clock, elapsed, edits, value, state, setting, leds, shown, timer,
                 cursor, old_state, oled, ev, step, rendered, ranAt, now_val>>

(***************************************************************************)
(* The environment and the task.                                           *)
(***************************************************************************)
\* one millisecond passes.  millis() is read by updateState and by
\* buzzerHandler only, so a millisecond that passes while display() is about
\* to run is taken as passing right after it.
Tick ==
  /\ elapsed < MaxElapsed
  /\ pc # "display"
  /\ elapsed' = elapsed + 1
  /\ clock' = clock + 1
  /\ UNCHANGED <<budget, edits, pc, value, state, setting, leds, shown, timer,
                 cursor, old_state, buzzer, oled, ev, step, rendered, ranAt,
                 now_val>>

\* samples analogRead() returns in the explored runs
RawSamples == {0, AdcMax}

\* values of millis() at which the task enters its loop in the explored runs
StartTimes == {4, 48}

\* the globals and statics as the program starts: zero-initialised statics,
\* the default member initialisers of Setting, cleared LED and display
Init ==
  /\ clock \in StartTimes
  /\ elapsed = 0
  /\ budget = MaxIter
  /\ edits = MaxEdits
  /\ pc = "updateState"
  /\ value = 0
  /\ state = "Ok"
  /\ setting = Setting
  /\ leds = Black
  /\ shown = <<>>
  /\ timer = 0
  /\ cursor = 0
  /\ old_state = "Ok"
  /\ buzzer = LOW
  /\ oled = Blank
  /\ ev = NoEvent
  /\ step = 0
  /\ rendered = FALSE
  /\ ranAt = <<>>
  /\ now_val = 0

\* whether e reports an increase or a decrease event
Steps(e) == e.right_click \/ e.right_step \/ e.left_click \/ e.left_step

\* display() with the events of this iteration, within the explored runs
Buttons ==
  \E e \in Events :
    /\ Steps(e) => edits > 0
    /\ display(e)
    /\ edits' = IF Steps(e) THEN edits - 1 ELSE edits

\* the three calls of for (;;) { updateState(); display(); buzzerHandler(); },
\* within the explored iterations
Sampling == budget > 0 /\ \E sample \in RawSamples : updateState(sample)

Menu == budget > 0 /\ Buttons

Alarm == budget > 0 /\ buzzerHandler

Next == Tick \/ Sampling \/ Menu \/ Alarm

Spec == Init /\ [][Next]_vars

(***************************************************************************)
(* The running program.  Every value in 0..4086 is a filter output some    *)
(* sample sequence produces from 0, every even threshold is reached from   *)
(* the defaults by menu edits, and the flags and the cursor take any       *)
(* value; the sensor, the buttons and the clock are independent.  Each     *)
(* initial state below is the state at the end of an iteration in which    *)
(* the sample equalled value and no button event was reported.             *)
(***************************************************************************)
\* <<value, medium_threshold, high_threshold>>
RunConfigs ==
  { <<0, 1000, 2000>>, <<1000, 1000, 2000>>, <<1050, 1000, 2000>>,
    <<1500, 1000, 2000>>, <<1999, 1000, 2000>>, <<2500, 1000, 2000>>,
    <<2500, 3000, 2000>>, <<1500, 2000, 2000>>, <<4086, 50, 65530>> }

\* values of millis() at the end of that iteration
RunTimes == {48, 98, 498}

InitRunning ==
  \E cfg \in RunConfigs, en \in BOOLEAN :
    LET s == [buzzer_en |-> en, medium_threshold |-> cfg[2],
              high_threshold |-> cfg[3], gradient_led_display |-> en]
        c == Classify(cfg[1], s)
    IN  /\ clock \in RunTimes
        /\ elapsed = 0
        /\ budget = RunIter
        /\ edits = MaxEdits
        /\ pc = "updateState"
        /\ value = cfg[1]
        /\ now_val = cfg[1]
        /\ state = c.state
        /\ setting = s
        /\ leds = c.colour
        /\ shown = <<c.colour>>
        /\ timer = 0
        /\ cursor \in {1, MenuRows - 1}
        /\ old_state = c.state
        /\ buzzer = Level(s, c.state, clock)
        /\ oled = Render(c.state, cursor, s)
        /\ ev = NoEvent
        /\ step = 0
        /\ rendered = update_flag_init
        /\ ranAt = <<clock>>

\* updateState() with the samples of the explored runs or the steady sample
\* equal to value
SamplingRunning ==
  budget > 0 /\ \E sample \in RawSamples \cup {value} : updateState(sample)

NextRunning == Tick \/ SamplingRunning \/ Menu \/ Alarm

SpecRunning == InitRunning /\ [][NextRunning]_vars

(***************************************************************************)
(* The program from its start with every sample equal to 500 and the menu  *)
(* cursor left on row 0, so that the thresholds keep their defaults.  The  *)
(* task loop never blocks, hence the weak fairness of its calls; the clock *)
(* keeps running, and since Tick is disabled while display() is about to   *)
(* run, its fairness is the strong one.                                    *)
(***************************************************************************)
SamplingSteady == updateState(500)

MenuRow0 ==
  \E e \in Events : ~e.ok_click /\ display(e) /\ UNCHANGED edits

NextSteady == Tick \/ SamplingSteady \/ MenuRow0 \/ buzzerHandler

SpecSteady ==
  /\ Init
  /\ [][NextSteady]_vars
  /\ SF_vars(Tick)
  /\ WF_vars(SamplingSteady \/ MenuRow0 \/ buzzerHandler)

(***************************************************************************)
(* The program from its start with the sensor held at one reading and the  *)
(* user switching the buzzer and raising medium_threshold: confirm clicks  *)
(* move the cursor, the increase or the decrease button is held while the  *)
(* cursor is on row 0, and the increase button is held while the cursor is *)
(* on row 1 and medium_threshold has not passed high_threshold.            *)
(***************************************************************************)
\* the readings the sensor is held at
HeldSamples == {0, 2060, AdcMax}

\* updateState() with the reading of the previous gated run, once there is one
SamplingHeld ==
  \E sample \in HeldSamples :
    /\ (ranAt # <<>>) => sample = now_val
    /\ updateState(sample)

\* what the buttons report in these runs: nothing, a confirm click, or the
\* increase or the decrease button held
EditEvents ==
  {NoEvent, [NoEvent EXCEPT !.ok_click = TRUE],
   [NoEvent EXCEPT !.right_step = TRUE], [NoEvent EXCEPT !.left_step = TRUE]}

MenuEdits ==
  \E e \in EditEvents :
    /\ Steps(e) =>
         \/ cursor = 0
         \/ /\ cursor = 1
            /\ e.right_step
            /\ setting.medium_threshold <= setting.high_threshold
    /\ display(e)
    /\ UNCHANGED edits

NextEdits == Tick \/ SamplingHeld \/ MenuEdits \/ buzzerHandler

SpecEdits == Init /\ [][NextEdits]_vars

(***************************************************************************)
(* The running program from the iteration after which the sensor stays at  *)
(* one reading: the last sample, now_val, was that reading, value is       *)
(* whatever the samples before left, the thresholds have their defaults    *)
(* and no button is touched, so that they keep them.  Fairness as in       *)
(* SpecSteady.                                                             *)
(***************************************************************************)
\* the readings the sensor stays at
HoldRaws == {0, 1000, 2005, AdcMax}

\* value when the sensor starts to stay at its reading
HoldStarts == {0, 1000, 4086}

InitHold ==
  \E v \in HoldStarts, r \in HoldRaws, en \in BOOLEAN :
    LET s == [Setting EXCEPT !.buzzer_en = en]
        c == Classify(v, s)
    IN  /\ clock \in RunTimes
        /\ elapsed = 0
        /\ budget = 0
        /\ edits = MaxEdits
        /\ pc = "updateState"
        /\ value = v
        /\ now_val = r
        /\ state = c.state
        /\ setting = s
        /\ leds = c.colour
        /\ shown = <<c.colour>>
        /\ timer = 0
        /\ cursor = 0
        /\ old_state = c.state
        /\ buzzer = Level(s, c.state, clock)
        /\ oled = Render(c.state, cursor, s)
        /\ ev = NoEvent
        /\ step = 0
        /\ rendered = update_flag_init
        /\ ranAt = <<clock>>

\* updateState() reading the same sample as in its previous gated run
SamplingHold == updateState(now_val)

\* display() with no button event reported
MenuIdle == display(NoEvent) /\ UNCHANGED edits

NextHold == Tick \/ SamplingHold \/ MenuIdle \/ buzzerHandler

SpecHold ==
  /\ InitHold
  /\ [][NextHold]_vars
  /\ SF_vars(Tick)
  /\ WF_vars(SamplingHold \/ MenuIdle \/ buzzerHandler)

(***************************************************************************)
(* Properties.                                                             *)
(***************************************************************************)
\* the last updateState() call ran its gated body and display() has not run since
Classified == pc = "display" /\ shown # <<>>

\* the step taken is a call of updateState() whose gated body runs
FilterStep == pc = "updateState" /\ pc' = "display" /\ shown' # <<>>

\* the step taken is a call of display()
DisplayStep == pc = "display" /\ pc' = "buzzerHandler"

\* the step taken is a call of buzzerHandler()
BuzzerStep == pc = "buzzerHandler" /\ pc' = "updateState"

Min(a, b) == IF a <= b THEN a ELSE b
Max(a, b) == IF a >= b THEN a ELSE b

\* C1: with medium_threshold < high_threshold, a classification step gives Ok
\* iff value < medium_threshold, Control iff medium_threshold <= value <
\* high_threshold, and Critical iff value >= high_threshold.
C1_Classification ==
  (Classified /\ setting.medium_threshold < setting.high_threshold) =>
    /\ (state = "Ok") <=> (value < setting.medium_threshold)
    /\ (state = "Control") <=>
         (setting.medium_threshold <= value /\ value < setting.high_threshold)
    /\ (state = "Critical") <=> (value >= setting.high_threshold)

\* a classification at the boundary value = medium_threshold gave Control
C1_Witness ==
  /\ Classified
  /\ setting.medium_threshold < setting.high_threshold
  /\ value = setting.medium_threshold
  /\ state = "Control"

\* C2: whenever value is at or above high_threshold, a classification step
\* gives Critical and the colour red, whatever medium_threshold is.
C2_CriticalAboveHigh ==
  (Classified /\ value >= setting.high_threshold) =>
    (state = "Critical" /\ leds = Red)

\* C3: the level buzzerHandler() writes at clock value now is LOW when the
\* buzzer is disabled or the state is Ok, HIGH exactly when now mod 500 < 50
\* in Control and HIGH exactly when now mod 100 < 50 in Critical; it is a
\* function of the enable flag, the state and now alone.
C3_AlarmLevel ==
  [][BuzzerStep =>
       buzzer' = IF ~setting.buzzer_en \/ state = "Ok" THEN LOW
                 ELSE IF state = "Control"
                      THEN (IF clock % 500 < 50 THEN HIGH ELSE LOW)
                      ELSE (IF clock % 100 < 50 THEN HIGH ELSE LOW)]_vars

\* at millis() = 100 the buzzer was driven HIGH in Critical (100 mod 100 < 50
\* although 100 mod 500 >= 50)
C3_Witness ==
  /\ pc = "updateState"
  /\ budget = 0
  /\ setting.buzzer_en
  /\ state = "Critical"
  /\ clock = 100
  /\ buzzer = HIGH

\* C4: after each filter update the new value lies between the previous value
\* and the sample, both inclusive, and value stays within 0..4095.
C4_FilterBetween ==
  /\ [](value \in 0..4095)
  /\ [][FilterStep =>
          /\ Min(value, now_val') <= value'
          /\ value' <= Max(value, now_val')]_vars

\* a downward update whose quotient was truncated toward zero: 409 with the
\* sample 0 moves by -40 to 369
C4_Witness == Classified /\ now_val = 0 /\ value = 369

\* C5 as stated: with every sample equal to 500 and the default thresholds,
\* value eventually equals 500 and stays there, and from then on the state is
\* Ok, the colour green and the buzzer LOW.
C5_SettlesAt500 ==
  <>[](value = 500 /\ state = "Ok" /\ leds = Green /\ buzzer = LOW)

\* C5 as amended: value eventually equals 491, where the truncated step
\* (500 - value) / 10 becomes 0, and stays there, and from then on the state
\* is Ok, the colour green and the buzzer LOW.
C5_SettlesAt491 ==
  <>[](value = 491 /\ state = "Ok" /\ leds = Green /\ buzzer = LOW)

\* value has settled at 491 and the buzzer, though enabled, was driven LOW
C5_Witness ==
  /\ pc = "updateState"
  /\ value = 491
  /\ now_val = 500
  /\ state = "Ok"
  /\ leds = Green
  /\ setting.buzzer_en
  /\ buzzer = LOW

\* C6: between two consecutive runs of the gated body of updateState() at
\* least 5 ms of the clock have passed.
C6_RateLimited ==
  [][(FilterStep /\ ranAt # <<>>) => clock - ranAt[1] >= 5]_vars

\* C7: display() redraws only if the state differs from the one it saw in the
\* previous iteration, or a setting was edited, or the cursor advanced.
C7_RedrawOnlyOnChange ==
  [][(DisplayStep /\ rendered') =>
       (old_state # state \/ step' # 0 \/ cursor' # cursor)]_vars

\* the number a sequence of decimal digits denotes
RECURSIVE Number(_)
Number(d) ==
  IF d = <<>> THEN 0 ELSE 10 * Number(SubSeq(d, 1, Len(d) - 1)) + d[Len(d)]

\* the display contents o show state st, cursor c and settings s
Shows(o, st, c, s) ==
  /\ (st = "Ok") => o.label = "Vse horosho"
  /\ (st = "Control") => o.label = "Ostorozhno"
  /\ (st = "Critical") => o.label = "Opasno"
  /\ o.marker = c + 1
  /\ o.buzzer_en = (IF s.buzzer_en THEN "vkl" ELSE "vykl")
  /\ Len(o.medium_threshold) >= 4
  /\ Number(o.medium_threshold) = s.medium_threshold
  /\ Len(o.high_threshold) >= 4
  /\ Number(o.high_threshold) = s.high_threshold
  /\ o.gradient_led_display = (IF s.gradient_led_display THEN "vkl" ELSE "vykl")

\* C8: whenever the state differs from the one seen in the previous
\* iteration, or a nonzero net delta is applied, or a confirm click advances
\* the cursor, display() redraws in that iteration, and the display then
\* shows the current state, the current four settings and the marker on row
\* cursor + 1 of the cursor after the click.
C8_RedrawOnChange ==
  [][(DisplayStep /\ (old_state # state \/ step' # 0 \/ ev'.ok_click)) =>
       (rendered' /\ Shows(oled', state', cursor', setting'))]_vars

\* a confirm click alone, taking the cursor from row 3 to row 0, was followed
\* by a redraw with the marker on display row 1
C8_Witness ==
  /\ pc = "buzzerHandler"
  /\ ev = [NoEvent EXCEPT !.ok_click = TRUE]
  /\ cursor = 0
  /\ rendered
  /\ oled.marker = 1

\* C9: the cursor starts at 0 and stays in 0..3; a display() call with a
\* confirm click takes it from c to (c + 1) mod 4, a call without one leaves
\* it unchanged, and so does every other step.
C9_Cursor ==
  /\ cursor = 0
  /\ [](cursor \in 0..3)
  /\ [][IF DisplayStep
        THEN cursor' = (IF ev'.ok_click THEN (cursor + 1) % 4 ELSE cursor)
        ELSE cursor' = cursor]_vars

\* the fourth confirm click since the start, together with increase and
\* decrease events, brought the cursor from 3 back to 0
C9_Witness ==
  /\ pc = "buzzerHandler"
  /\ budget = 1
  /\ ev.ok_click /\ ev.right_step /\ ev.left_click
  /\ cursor = 0

\* the sum of the contributions of the events e reports
NetDelta(e) ==
  (IF e.right_click THEN 10 ELSE 0) + (IF e.right_step THEN 100 ELSE 0)
  - (IF e.left_click THEN 10 ELSE 0) - (IF e.left_step THEN 100 ELSE 0)

\* C10: for every combination of increase_click, increase_hold,
\* decrease_click and decrease_hold in one display() call, step is exactly the
\* sum of their contributions, a value in -110..110; with the cursor on row 1
\* medium_threshold changes by that sum and with the cursor on row 2
\* high_threshold does, in 16-bit unsigned arithmetic.
C10_NetDelta ==
  [][DisplayStep =>
       /\ step' = NetDelta(ev')
       /\ step' \in -110..110
       /\ (cursor' = 1) =>
            setting'.medium_threshold =
              (setting.medium_threshold + NetDelta(ev')) % 65536
       /\ (cursor' = 2) =>
            setting'.high_threshold =
              (setting.high_threshold + NetDelta(ev')) % 65536]_vars

\* increase_click and increase_hold in one call with the cursor on row 1
\* raised medium_threshold from 1000 to 1110
C10_Witness ==
  /\ pc = "buzzerHandler"
  /\ ev = [NoEvent EXCEPT !.right_click = TRUE, !.right_step = TRUE]
  /\ cursor = 1
  /\ step = 110
  /\ setting.medium_threshold = 1110

\* C11: in a display() call whose cursor, after the confirm click, is on row
\* 0, a positive net delta leaves buzzer_en true and a negative one leaves it
\* false, whatever the magnitude and the previous value; on row 3 the same
\* holds for gradient_led_display; a net delta of zero leaves both flags as
\* they were.
C11_SignOnly ==
  [][DisplayStep =>
       LET d == NetDelta(ev')
       IN  /\ (cursor' = 0 /\ d > 0) => setting'.buzzer_en = TRUE
           /\ (cursor' = 0 /\ d < 0) => setting'.buzzer_en = FALSE
           /\ (cursor' = 3 /\ d > 0) => setting'.gradient_led_display = TRUE
           /\ (cursor' = 3 /\ d < 0) => setting'.gradient_led_display = FALSE
           /\ (d = 0) =>
                /\ setting'.buzzer_en = setting.buzzer_en
                /\ setting'.gradient_led_display =
                     setting.gradient_led_display]_vars

\* on row 0 the net delta -90 of an increase click and a held decrease left
\* the buzzer disabled where it had been enabled (the gradient flag, enabled
\* with it, still is)
C11_Witness ==
  /\ pc = "buzzerHandler"
  /\ cursor = 0
  /\ ev.right_click /\ ev.left_step /\ ~ev.right_step /\ ~ev.left_click
  /\ step = -90
  /\ setting.buzzer_en = FALSE
  /\ setting.gradient_led_display = TRUE

\* C12: a threshold edit with net delta d leaves (old + d) mod 65536 with no
\* saturation: a negative d larger than the threshold wraps to old + d + 65536,
\* at least 65426, and a positive d past 65535 wraps to old + d - 65536, below
\* 110; both thresholds are in 0..65535 in every reachable state.
C12_ThresholdWrap ==
  /\ [](/\ setting.medium_threshold \in 0..65535
        /\ setting.high_threshold \in 0..65535)
  /\ [][DisplayStep =>
          LET d == NetDelta(ev')
              wrapped(old, new) ==
                /\ new = (old + d) % 65536
                /\ (old + d < 0) => (new = old + d + 65536 /\ new >= 65426)
                /\ (old + d > 65535) => (new = old + d - 65536 /\ new < 110)
          IN  /\ (cursor' = 1 /\ d # 0) =>
                   wrapped(setting.medium_threshold, setting'.medium_threshold)
              /\ (cursor' = 2 /\ d # 0) =>
                   wrapped(setting.high_threshold, setting'.high_threshold)]_vars

\* on row 1 the net delta -110 took medium_threshold from 50 to 65476
C12_Witness ==
  /\ pc = "buzzerHandler"
  /\ cursor = 1
  /\ step = -110
  /\ setting.medium_threshold = 65476
  /\ setting.high_threshold = 65530

\* C13: updateState() and buzzerHandler() leave the four settings and the
\* cursor unchanged; a display() call changes at most the field its cursor,
\* after the confirm click, selects (0 buzzer_en, 1 medium_threshold, 2
\* high_threshold, 3 gradient_led_display), and none when the net delta is 0.
C13_SettingsFrame ==
  [][/\ ~DisplayStep =>
          (setting' = setting /\ cursor' = cursor)
     /\ DisplayStep =>
          LET d == NetDelta(ev')
          IN  /\ (setting'.buzzer_en # setting.buzzer_en) =>
                   (cursor' = 0 /\ d # 0)
              /\ (setting'.medium_threshold # setting.medium_threshold) =>
                   (cursor' = 1 /\ d # 0)
              /\ (setting'.high_threshold # setting.high_threshold) =>
                   (cursor' = 2 /\ d # 0)
              /\ (setting'.gradient_led_display # setting.gradient_led_display) =>
                   (cursor' = 3 /\ d # 0)]_vars

\* on row 2 the net delta 100 raised high_threshold from 2000 to 2100 and left
\* medium_threshold at 1000
C13_Witness ==
  /\ pc = "buzzerHandler"
  /\ cursor = 2
  /\ step = 100
  /\ setting.medium_threshold = 1000
  /\ setting.high_threshold = 2100

\* the red component the code computes for value w under the settings s
RedOf(w, s) == Gradient(w, s)[1]

\* C14: when gradient_led_display is on and a classification gives Control,
\* so that m <= v < h, the colour is (c, 255 - c, 0) with
\* c = ((v - m) * 255) div (h - m); h - m is not zero, c is in 0..255, c is 0
\* at v = m, and c does not decrease as v grows (compared here with the
\* values m, v - 1, v + 1 and h - 1 of the same range).  When v < m the colour
\* is green and when v >= m and v >= h it is red: the gradient is not used.
C14_Gradient ==
  LET m == setting.medium_threshold
      h == setting.high_threshold
      c == ((value - m) * 255) \div (h - m)
  IN  Classified =>
        /\ (setting.gradient_led_display /\ state = "Control") =>
              /\ m <= value /\ value < h
              /\ h - m # 0
              /\ c \in 0..255
              /\ leds = <<c, 255 - c, 0>>
              /\ (value = m) => leds = <<0, 255, 0>>
              /\ \A w \in {m, value - 1, value + 1, h - 1} \cap (m..(h - 1)) :
                    /\ (w <= value) => RedOf(w, setting) <= c
                    /\ (w >= value) => RedOf(w, setting) >= c
        /\ (value < m) => leds = Green
        /\ (value >= m /\ value >= h) => leds = Red

\* with the gradient on, thresholds 1000 and 2000 and the value 1999 the
\* colour is (254, 1, 0)
C14_Witness ==
  /\ Classified
  /\ setting.gradient_led_display
  /\ state = "Control"
  /\ value = 1999
  /\ setting.medium_threshold = 1000
  /\ setting.high_threshold = 2000
  /\ leds = <<254, 1, 0>>

\* whether col has the form (c, 255 - c, 0) of a gradient colour
IsGradient(col) == \E c \in 0..255 : col = <<c, 255 - c, 0>>

\* C15: after every classification the colour follows from the state and the
\* gradient flag: green when Ok, red when Critical, yellow when Control with
\* the gradient off, a colour (c, 255 - c, 0) when Control with the gradient
\* on; one colour is pushed to the LED per classification, the one in leds.
C15_Colour ==
  Classified =>
    /\ (state = "Ok") => leds = <<0, 128, 0>>
    /\ (state = "Critical") => leds = <<255, 0, 0>>
    /\ (state = "Control" /\ ~setting.gradient_led_display) =>
         leds = <<255, 255, 0>>
    /\ (state = "Control" /\ setting.gradient_led_display) => IsGradient(leds)
    /\ (IsGradient(leds) /\ leds # <<255, 0, 0>>) =>
         (state = "Control" /\ setting.gradient_led_display)
    /\ Len(shown) = 1
    /\ shown[1] = leds

\* value 1500 with thresholds 1000 and 2000 and the gradient off gave Control
\* and yellow
C15_Witness ==
  /\ Classified
  /\ value = 1500
  /\ setting.medium_threshold = 1000
  /\ setting.high_threshold = 2000
  /\ ~setting.gradient_led_display
  /\ state = "Control"
  /\ leds = Yellow

\* C16: display() applies a step to medium_threshold also when the result is
\* at or above high_threshold, and after a classification with
\* medium_threshold >= high_threshold the state is Ok when value <
\* medium_threshold and Critical otherwise, never Control, and the colour is
\* green or red.
C16_NoControl ==
  /\ [][(DisplayStep /\ cursor' = 1 /\ step' > 0
          /\ setting.medium_threshold + step' < 65536) =>
            setting'.medium_threshold = setting.medium_threshold + step']_vars
  /\ [](( /\ Classified
          /\ setting.medium_threshold >= setting.high_threshold) =>
            /\ state # "Control"
            /\ (state = "Ok") <=> (value < setting.medium_threshold)
            /\ (state = "Critical") <=> (value >= setting.medium_threshold)
            /\ leds \in {Green, Red})

\* held increases on row 1 took medium_threshold from 1000 to 2100, above
\* high_threshold 2000, and the value 2051 between the two was classified Ok
C16_Witness ==
  /\ Classified
  /\ setting.medium_threshold = 2100
  /\ setting.high_threshold = 2000
  /\ value = 2051
  /\ state = "Ok"
  /\ leds = Green

\* C17: the task starts with updateState() and every iteration runs
\* updateState(), then display(), then buzzerHandler(), whether or not the
\* gate of updateState() opens; value, state and the colour change only in
\* the gated body, the settings, the cursor and the display only in
\* display(), which draws the settings as edited in the same call, and the
\* buzzer pin only in buzzerHandler(), once per iteration.
C17_PhaseOrder ==
  /\ pc = "updateState"
  /\ [][/\ (pc' # pc) =>
            <<pc, pc'>> \in {<<"updateState", "display">>,
                             <<"display", "buzzerHandler">>,
                             <<"buzzerHandler", "updateState">>}
        /\ (value' # value \/ state' # state \/ leds' # leds) => FilterStep
        /\ (setting' # setting \/ cursor' # cursor \/ oled' # oled) =>
             DisplayStep
        /\ (DisplayStep /\ rendered') =>
             oled' = Render(state, cursor', setting')
        /\ (buzzer' # buzzer) => BuzzerStep
        /\ BuzzerStep => buzzer' \in {LOW, HIGH}
        /\ (budget' # budget) => BuzzerStep]_vars

\* the first iteration, in which the gate stayed closed, handled an increase
\* click on row 0 and ran buzzerHandler()
C17_Witness ==
  /\ pc = "updateState"
  /\ budget = MaxIter - 1
  /\ ranAt = <<>>
  /\ step = 10
  /\ setting.buzzer_en
  /\ rendered
  /\ buzzer = LOW

\* the severity of value v against the thresholds m and h
Severity(v, m, h) ==
  IF v < m THEN "Ok" ELSE IF v < h THEN "Control" ELSE "Critical"

\* buzzerHandler() is the call that runs next
AlarmTick == pc = "buzzerHandler"

\* C18 as stated: at every call of buzzerHandler() the state it reads is the
\* severity of the current value against the thresholds held at that moment.
C18_SeverityCurrent ==
  AlarmTick =>
    state = Severity(value, setting.medium_threshold, setting.high_threshold)

\* the thresholds as they were before the display() call of this iteration
MediumBefore ==
  IF step # 0 /\ cursor = 1
  THEN (setting.medium_threshold - step) % 65536
  ELSE setting.medium_threshold

HighBefore ==
  IF step # 0 /\ cursor = 2
  THEN (setting.high_threshold - step) % 65536
  ELSE setting.high_threshold

\* C18 as amended: at every call of buzzerHandler() the state it reads is Ok
\* if the gated body of updateState() has never run, and if it ran in this
\* iteration it is the severity of the current value against the thresholds
\* as they were before the display() call of this iteration; so it is the
\* severity against the current thresholds when that call edited neither.
C18_SeverityAtClassification ==
  AlarmTick =>
    /\ (ranAt = <<>>) => state = "Ok"
    /\ (shown # <<>>) => state = Severity(value, MediumBefore, HighBefore)
    /\ (shown # <<>> /\ ~(step # 0 /\ cursor \in {1, 2})) =>
         state = Severity(value, setting.medium_threshold,
                          setting.high_threshold)

\* value 1108 was classified Control against medium_threshold 1000, display()
\* then raised medium_threshold to 1110, and buzzerHandler() is about to read
\* the state Control
C18_Witness ==
  /\ AlarmTick
  /\ shown # <<>>
  /\ cursor = 1
  /\ step = 110
  /\ value = 1108
  /\ setting.medium_threshold = 1110
  /\ state = "Control"

\* C19: buzzerHandler() drives the pin HIGH only if buzzer_en is true when it
\* runs.  buzzer_en is false at the start and becomes true only by a positive
\* net delta with the cursor on row 0, and the pin is LOW at the start; a
\* negative net delta with the cursor on row 0 leaves buzzer_en false; and
\* while buzzer_en is false the pin is LOW once buzzerHandler() has run in
\* the iteration, whatever the state and the clock.
C19_SilentWhenDisabled ==
  /\ ~setting.buzzer_en /\ buzzer = LOW
  /\ [][/\ (BuzzerStep /\ buzzer' = HIGH) => setting.buzzer_en
        /\ (BuzzerStep /\ ~setting.buzzer_en) => buzzer' = LOW
        /\ (~setting.buzzer_en /\ setting'.buzzer_en) =>
             (DisplayStep /\ cursor' = 0 /\ NetDelta(ev') > 0)
        /\ (DisplayStep /\ cursor' = 0 /\ NetDelta(ev') < 0) =>
             ~setting'.buzzer_en]_vars
  /\ []((pc # "buzzerHandler" /\ ~setting.buzzer_en) => buzzer = LOW)

\* a held decrease on row 0 left the buzzer disabled and buzzerHandler() drove
\* the pin LOW in that iteration, in the state Critical at millis() = 48,
\* where it drives the pin of an enabled buzzer HIGH
C19_Witness ==
  /\ pc = "updateState"
  /\ ev = [NoEvent EXCEPT !.left_step = TRUE]
  /\ cursor = 0
  /\ ~setting.buzzer_en
  /\ state = "Critical"
  /\ clock = 48
  /\ buzzer = LOW

Abs(x) == IF x < 0 THEN -x ELSE x

\* C20: with every sample equal to the reading r the sensor stays at, value
\* eventually stops changing, at a value s with |r - s| <= 9; an update
\* leaves value equal to r only if value was r before it; and with the
\* thresholds unchanged the state eventually stops changing as well.
C20_Settles ==
  /\ <>[](Abs(now_val - value) <= 9)
  /\ <>[][value' = value /\ state' = state]_vars
  /\ [][(FilterStep /\ value' = now_val') => value = now_val']_vars
  /\ [][now_val' = now_val /\ setting'.medium_threshold = setting.medium_threshold
          /\ setting'.high_threshold = setting.high_threshold]_vars

\* from 4086 with the sensor at 2005 value has come down to 2014, nine above
\* the reading, where the step (2005 - 2014) / 10 is 0, and the state is
\* Critical
C20_Witness ==
  /\ Classified
  /\ now_val = 2005
  /\ value = 2014
  /\ state = "Critical"

=============================================================================
